---- MODULE Spec2Model ----
(***************************************************************************)
(* Boot-decision core of lk2nd: aboot_init (app/aboot/aboot.c).            *)
(*                                                                         *)
(* One boot of aboot_init is a walk of pc through the labelled regions of  *)
(* the function; Reboot starts the next boot on the same non-volatile      *)
(* state (device info record, slot table).                                 *)
(***************************************************************************)
EXTENDS Integers, Sequences, FiniteSets, TLC

\* ------------------------------------------------------------------ bounds
\* Number of A/B slots of the partition table.
NumSlots == 2

\* Most app descriptors between __apps_start and __apps_end.
MaxApps == 2

\* --------------------------------------------------------------- constants
INVALID == -1

Slots == 0 .. (NumSlots - 1)

KEY_VOLUMEUP == "KEY_VOLUMEUP"
KEY_VOLUMEDOWN == "KEY_VOLUMEDOWN"
KEY_HOME == "KEY_HOME"
KEY_BACK == "KEY_BACK"
Keys == {KEY_VOLUMEUP, KEY_VOLUMEDOWN, KEY_HOME, KEY_BACK}

NORMAL_MODE == "NORMAL_MODE"
RECOVERY_MODE == "RECOVERY_MODE"
FASTBOOT_MODE == "FASTBOOT_MODE"
ALARM_BOOT == "ALARM_BOOT"
DM_VERITY_ENFORCING == "DM_VERITY_ENFORCING"
DM_VERITY_LOGGING == "DM_VERITY_LOGGING"
DM_VERITY_EIO == "DM_VERITY_EIO"
DM_VERITY_KEYSCLEAR == "DM_VERITY_KEYSCLEAR"
\* Values check_reboot_mode() / check_hard_reboot_mode() can return.
RebootModes ==
    {NORMAL_MODE, RECOVERY_MODE, FASTBOOT_MODE, ALARM_BOOT, DM_VERITY_ENFORCING,
     DM_VERITY_LOGGING, DM_VERITY_EIO, DM_VERITY_KEYSCLEAR}

ERR_INVALID_PAGE_SIZE == "ERR_INVALID_PAGE_SIZE"
ERR_DT_PARSE == "ERR_DT_PARSE"
ERR_ABOOT_ADDR_OVERLAP == "ERR_ABOOT_ADDR_OVERLAP"
ERR_INVALID_BOOT_MAGIC == "ERR_INVALID_BOOT_MAGIC"
\* The case labels of the switch on boot_err_type.
RetryableErrors ==
    {ERR_INVALID_PAGE_SIZE, ERR_DT_PARSE, ERR_ABOOT_ADDR_OVERLAP, ERR_INVALID_BOOT_MAGIC}
\* What boot_linux_from_mmc() can come back with; "BOOTED" is the call that
\* does not come back (control has left for the loaded kernel).
BootResults == RetryableErrors \cup {"ERR_OTHER", "BOOTED"}

DISPLAY_PANEL_HDMI == "hdmi"
PanelNames == {"", "dsi"}

\* Build configuration: the conditional-compilation switches that later
\* steps or later boots depend on. A switch read at a single place of
\* aboot_init is drawn where it is read.
Configs ==
    { c \in [force_fastboot : BOOLEAN,   \* LK2ND_FORCE_FASTBOOT
             vb             : BOOLEAN,   \* (VERIFIED_BOOT || VERIFIED_BOOT_2) && VB_M <= target_get_vb_version()
             vb_attest      : BOOLEAN] : \* ENABLE_VB_ATTEST
        c.vb_attest => c.vb }

\* Device info records as they can lie in storage before a boot.
DeviceInfos ==
    [is_unlocked : BOOLEAN, is_tampered : BOOLEAN, verity_mode : {0, 1},
     display_panel : PanelNames]

\* The static device record before read_device_info() fills it.
DeviceInitial ==
    [is_unlocked |-> FALSE, is_tampered |-> FALSE, verity_mode |-> 1, display_panel |-> ""]

SlotInfo == [active : BOOLEAN, bootable : BOOLEAN]
NoSlots == [i \in Slots |-> [active |-> FALSE, bootable |-> FALSE]]
\* Slot tables with at most one active slot.
SlotTables ==
    { s \in [Slots -> SlotInfo] : Cardinality({i \in Slots : s[i].active}) <= 1 }

VARIABLES
    cfg,                 \* build configuration
    devinfo,             \* device info record in non-volatile storage
    multislot,           \* partition_multislot_is_supported()
    slots,               \* slot table in non-volatile storage
    pc,                  \* position in aboot_init
    device,              \* static device_info device
    boot_into_fastboot,
    boot_into_recovery,
    boot_reason_alarm,
    reboot_mode,
    boot_slot,
    force_reset,         \* what is_user_force_reset() returned this boot
    keys,                \* keys held down this boot
    wbc_poll,            \* parity of the polls made by the wait loop of lines 91-92
    log,                 \* calls made to collaborators this boot, in order
    apps,                \* the app descriptors __apps_start .. __apps_end
    apps_pc,             \* position in apps_init
    app,                 \* apps_init's cursor into the descriptors
    apps_log             \* init hooks called and returned, threads created and resumed

pers == <<cfg, devinfo, multislot, slots>>
flags == <<boot_into_fastboot, boot_into_recovery, boot_reason_alarm>>
locals == <<reboot_mode, boot_slot>>
inputs == <<force_reset, keys, wbc_poll>>
appvars == <<apps, apps_pc, app, apps_log>>
vars == <<cfg, devinfo, multislot, slots, pc, device, boot_into_fastboot,
          boot_into_recovery, boot_reason_alarm, reboot_mode, boot_slot,
          force_reset, keys, wbc_poll, log, apps, apps_pc, app, apps_log>>

Terminal == {"handoff", "edl_reset", "halted", "fastboot_mode"}

\* ------------------------------------------------------- Slot Selector
ActiveSlots(s) == {i \in Slots : s[i].active}
BootableSlots(s) == {i \in Slots : s[i].bootable}
MinSlot(S) == CHOOSE i \in S : \A j \in S : i <= j

\* findActive(): the active slot, or none.
partition_find_active_slot(s) ==
    IF ActiveSlots(s) = {} THEN INVALID ELSE MinSlot(ActiveSlots(s))

\* findBootable(): the active slot while it is bootable, else the next slot
\* still marked bootable, else none.
partition_find_boot_slot(s) ==
    IF ActiveSlots(s) \cap BootableSlots(s) # {} THEN MinSlot(ActiveSlots(s) \cap BootableSlots(s))
    ELSE IF BootableSlots(s) # {} THEN MinSlot(BootableSlots(s))
    ELSE INVALID

\* markActive(slot): exactly that slot is active afterwards. The tables it
\* may leave when handed INVALID, for which the operation is not defined:
\* the table as it was, or no slot active.
partition_mark_active_slot(s, slot) ==
    IF slot \in Slots
    THEN {[i \in Slots |-> [s[i] EXCEPT !.active = (i = slot)]]}
    ELSE {s, [i \in Slots |-> [s[i] EXCEPT !.active = FALSE]]}

\* deactivate(slot): clears bootable.
partition_deactivate_slot(s, slot) ==
    [i \in Slots |-> IF i = slot THEN [s[i] EXCEPT !.bootable = FALSE] ELSE s[i]]

\* ----------------------------------------------------------------- Init
\* apps_init is not followed: Spec is aboot_init on its own.
AppsIdle ==
    /\ apps = <<>>
    /\ apps_pc = "idle"
    /\ app = 1
    /\ apps_log = <<>>

Init ==
    /\ cfg \in Configs
    /\ devinfo \in DeviceInfos
    /\ multislot \in BOOLEAN
    /\ slots \in IF multislot THEN SlotTables ELSE {NoSlots}
    /\ pc = "init"
    /\ device = DeviceInitial
    /\ boot_into_fastboot = FALSE
    /\ boot_into_recovery = FALSE
    /\ boot_reason_alarm = FALSE
    /\ reboot_mode = NORMAL_MODE
    /\ boot_slot = INVALID
    /\ force_reset = FALSE
    /\ keys = {}
    /\ wbc_poll = 0
    /\ log = <<>>
    /\ AppsIdle


\* One call to a collaborator, as recorded in log.
Ev(op, arg) == [op |-> op, arg |-> arg]
Called(op) == \E i \in 1 .. Len(log) : log[i].op = op

\* ------------------------------------------------- lines 40-47: device info
\* read_device_info(&device) / read_allow_oem_unlock(&device), or the
\* standalone default.
LoadDevice(standalone, stored, d) ==
    IF standalone THEN [d EXCEPT !.is_unlocked = TRUE] ELSE stored

\* standalone: ABOOT_STANDALONE.
ReadDeviceInfo ==
    /\ pc = "init"
    /\ \E standalone \in BOOLEAN : device' = LoadDevice(standalone, devinfo, device)
    /\ pc' = "slot_detect"
    /\ UNCHANGED <<pers, flags, locals, inputs, appvars, log>>

\* ------------------------------------------------ lines 51-66: active slot
\* Faulty variant of NoActiveSlotFastboot: a missing active slot latches nothing.
NoActiveSlotFastboot_NoLatch(s, fb) == fb

\* Lines 54-58: boot_into_fastboot once the active slot has been looked up.
NoActiveSlotFastboot(s, fb) == IF s = INVALID THEN TRUE ELSE fb

DetectSlot ==
    /\ pc = "slot_detect"
    /\ IF multislot
       THEN LET s == partition_find_active_slot(slots) IN
            /\ boot_slot' = s
            /\ boot_into_fastboot' = NoActiveSlotFastboot(s, boot_into_fastboot)
            /\ IF s = INVALID
               THEN UNCHANGED <<slots, log>>
               ELSE /\ slots' \in partition_mark_active_slot(slots, s)
                    /\ log' = Append(log, Ev("partition_mark_active_slot", s))
       ELSE UNCHANGED <<boot_slot, boot_into_fastboot, slots, log>>
    /\ pc' = "display"
    /\ UNCHANGED <<cfg, devinfo, multislot, device, boot_into_recovery, boot_reason_alarm,
                   reboot_mode, inputs, appvars>>

\* --------------------------------------------- lines 75-104: splash screen
\* Faulty variant of PanelForDisplay: a panel name that is set is replaced too.
PanelForDisplay_Overwrites(hdmi_primary, d) ==
    IF hdmi_primary THEN [d EXCEPT !.display_panel = DISPLAY_PANEL_HDMI] ELSE d

\* DISPLAY_HDMI_PRIMARY: an empty panel name becomes the HDMI panel.
PanelForDisplay(hdmi_primary, d) ==
    IF hdmi_primary /\ d.display_panel = ""
    THEN [d EXCEPT !.display_panel = DISPLAY_PANEL_HDMI]
    ELSE d

\* Lines 88-96: under ENABLE_WBC the splash screen waits for the display
\* shutdown first.
AfterDisplaySetup(shown, enable_wbc) ==
    IF shown /\ enable_wbc THEN "display_wait" ELSE "force_check"

\* shown: DISPLAY_SPLASH_SCREEN is built in and, under NO_ALARM_DISPLAY, this
\* is no alarm boot. hdmi_primary: DISPLAY_HDMI_PRIMARY. enable_wbc: ENABLE_WBC.
DisplayInit ==
    /\ pc = "display"
    /\ \E shown \in BOOLEAN, hdmi_primary \in BOOLEAN, enable_wbc \in BOOLEAN :
         /\ device' = IF shown THEN PanelForDisplay(hdmi_primary, device) ELSE device
         /\ pc' = AfterDisplaySetup(shown, enable_wbc)
    /\ UNCHANGED <<pers, flags, locals, inputs, appvars, log>>

\* Lines 91-92: while (pm_app_display_shutdown_in_prgs()) ; one poll per
\* step. in_prgs: what the poll returned.
WaitDisplayShutdown ==
    /\ pc = "display_wait"
    /\ \E in_prgs \in BOOLEAN :
         IF in_prgs
         THEN /\ wbc_poll' = 1 - wbc_poll
              /\ pc' = "display_wait"
         ELSE /\ wbc_poll' = 0
              /\ pc' = "force_check"
    /\ UNCHANGED <<pers, device, flags, locals, force_reset, keys, appvars, log>>

\* ------------------------------------------ lines 120-121: forced reset
\* Faulty variant of AfterForceCheck: the goto is missing.
AfterForceCheck_NoGoto(fr) == "key_check"

\* Where control goes after is_user_force_reset() returned fr.
AfterForceCheck(fr) == IF fr THEN "normal_boot" ELSE "key_check"

CheckForceReset ==
    /\ pc = "force_check"
    /\ \E fr \in BOOLEAN :
         /\ force_reset' = fr
         /\ pc' = AfterForceCheck(fr)
    /\ UNCHANGED <<pers, device, flags, locals, keys, wbc_poll, appvars, log>>

\* ------------------------------------------------- lines 125-147: keys
DloadKeys(k) == KEY_VOLUMEUP \in k /\ KEY_VOLUMEDOWN \in k

\* Faulty variant of DloadFallback: a dload request that came back latches nothing.
DloadFallback_NoLatch(fb, k) == fb

\* Line 132: boot_into_fastboot after a dload request that came back.
DloadFallback(fb, k) == IF DloadKeys(k) THEN TRUE ELSE fb

\* Faulty variant of KeyRecovery: the recovery key is honoured although
\* fastboot is already latched.
KeyRecovery_IgnoresFastboot(fb, rec, k) == IF KEY_VOLUMEUP \in k THEN TRUE ELSE rec

\* Lines 134-142, on the flags as they stand after the dload check.
KeyRecovery(fb, rec, k) == IF ~fb /\ KEY_VOLUMEUP \in k THEN TRUE ELSE rec

KeyFastboot(fb, rec, k) ==
    IF ~fb /\ ~rec /\ (KEY_HOME \in k \/ KEY_BACK \in k \/ KEY_VOLUMEDOWN \in k)
    THEN TRUE
    ELSE fb

\* dload_returns: reboot_device(EMERGENCY_DLOAD) came back instead of
\* resetting the device. trigger: NO_KEYPAD_DRIVER && fastboot_trigger(); a
\* target without a keypad driver reports no key as pressed.
CheckKeys ==
    /\ pc = "key_check"
    /\ \E k \in SUBSET Keys, dload_returns \in BOOLEAN, trigger \in BOOLEAN :
         /\ trigger => k = {}
         /\ keys' = IF trigger THEN k \cup {"fastboot_trigger"} ELSE k
         /\ IF DloadKeys(k) /\ ~dload_returns
            THEN /\ pc' = "edl_reset"
                 /\ log' = Append(log, Ev("reboot_device", INVALID))
                 /\ UNCHANGED flags
            ELSE LET fb1 == DloadFallback(boot_into_fastboot, k)
                     rec == KeyRecovery(fb1, boot_into_recovery, k)
                     fb2 == KeyFastboot(fb1, rec, k)
                 IN /\ boot_into_recovery' = rec
                    /\ boot_into_fastboot' = (fb2 \/ trigger)
                    /\ log' = IF DloadKeys(k)
                              THEN Append(log, Ev("reboot_device", INVALID))
                              ELSE log
                    /\ pc' = "reboot_reason"
                    /\ UNCHANGED boot_reason_alarm
    /\ UNCHANGED <<pers, device, locals, force_reset, wbc_poll, appvars>>

\* --------------------------------------- lines 149-196: reset reason
\* The reset code that selects logging mode.
LoggingCode(c) == IF c.vb_attest THEN DM_VERITY_EIO ELSE DM_VERITY_LOGGING

\* Whether the verified-boot branch (line 171) is taken for mode m.
PolicyBranch(c, m) == m \notin {RECOVERY_MODE, FASTBOOT_MODE, ALARM_BOOT} /\ c.vb

\* Faulty variant of VerityPolicy: the logging branch is a copy of the
\* enforcing branch.
VerityPolicy_BothEnforce(c, d, m) ==
    IF PolicyBranch(c, m) /\ m \in {DM_VERITY_ENFORCING, LoggingCode(c)}
    THEN [d EXCEPT !.verity_mode = 1]
    ELSE d

\* Lines 173-188: the device record after the verity policy for mode m.
VerityPolicy(c, d, m) ==
    IF PolicyBranch(c, m) /\ m = DM_VERITY_ENFORCING THEN [d EXCEPT !.verity_mode = 1]
    ELSE IF PolicyBranch(c, m) /\ m = LoggingCode(c) THEN [d EXCEPT !.verity_mode = 0]
    ELSE d

\* Faulty variant of PolicyWrites: the device record is never stored.
PolicyWrites_Never(c, m) == FALSE

\* Lines 176 and 185: whether write_device_info(&device) is called for mode m.
PolicyWrites(c, m) == PolicyBranch(c, m) /\ m \in {DM_VERITY_ENFORCING, LoggingCode(c)}

PolicyClearsKeys(c, m) == PolicyBranch(c, m) /\ m = DM_VERITY_KEYSCLEAR

\* Faulty variant of KeysClearHalts: the assertion is compiled out.
KeysClearHalts_Never(c, m, del_ok) == FALSE

\* Lines 192-193: ASSERT(0) when send_delete_keys_to_tz() fails.
KeysClearHalts(c, m, del_ok) == PolicyClearsKeys(c, m) /\ ~del_ok

\* del_ok: send_delete_keys_to_tz() returned 0.
CheckRebootMode ==
    /\ pc = "reboot_reason"
    /\ \E m \in RebootModes, del_ok \in BOOLEAN :
         /\ reboot_mode' = m
         /\ boot_into_recovery' = IF m = RECOVERY_MODE THEN TRUE ELSE boot_into_recovery
         /\ boot_into_fastboot' = IF m = FASTBOOT_MODE THEN TRUE ELSE boot_into_fastboot
         /\ boot_reason_alarm' = IF m = ALARM_BOOT THEN TRUE ELSE boot_reason_alarm
         /\ device' = VerityPolicy(cfg, device, m)
         /\ devinfo' = IF PolicyWrites(cfg, m) THEN device' ELSE devinfo
         /\ log' = IF PolicyWrites(cfg, m) THEN Append(log, Ev("write_device_info", INVALID))
                   ELSE IF PolicyClearsKeys(cfg, m)
                   THEN Append(log, Ev("send_delete_keys_to_tz", IF del_ok THEN 0 ELSE 1))
                   ELSE log
         /\ pc' = IF KeysClearHalts(cfg, m, del_ok) THEN "halted" ELSE "force_flag"
    /\ UNCHANGED <<cfg, multislot, slots, boot_slot, inputs, appvars>>

\* ------------------------------------ lines 198-202: LK2ND_FORCE_FASTBOOT
\* Signal evaluation ends here: the key sample and reboot_mode are not read
\* past this point and are dropped from the state.
ForceFastboot ==
    /\ pc = "force_flag"
    /\ boot_into_fastboot' = IF cfg.force_fastboot THEN TRUE ELSE boot_into_fastboot
    /\ keys' = {}
    /\ reboot_mode' = NORMAL_MODE
    /\ pc' = "normal_boot"
    /\ UNCHANGED <<pers, device, boot_into_recovery, boot_reason_alarm, boot_slot,
                   force_reset, wbc_poll, appvars, log>>


\* ------------------------------------------------ lines 204-233: normal_boot
\* Lines 219-232: whether the eMMC path signals the security subsystem.
\* signed: target_use_signed_kernel(); fuse: TZ_TAMPER_FUSE; pcom: USE_PCOM_SECBOOT.
TamperSignalMmc(d, signed, fuse, pcom) ==
    signed /\ (d.is_unlocked \/ d.is_tampered) /\ (fuse \/ pcom)

\* Lines 274-277: the same on the flash path.
TamperSignalFlash(d, pcom) == pcom /\ (d.is_unlocked \/ d.is_tampered)

\* Faulty variant of NormalBootSkipped: the boot block is entered whatever
\* the flag says.
NormalBootSkipped_Never(fb) == FALSE

\* Line 206, if (!boot_into_fastboot): whether the boot block is skipped.
NormalBootSkipped(fb) == fb

\* with_lk2nd_boot: WITH_LK2ND_BOOT; lk2nd_boots: lk2nd_boot() started an OS
\* and did not come back; emmc: target_is_emmc_boot().
NormalBoot ==
    /\ pc = "normal_boot"
    /\ IF NormalBootSkipped(boot_into_fastboot)
       THEN /\ pc' = "fastboot"
            /\ UNCHANGED log
       ELSE \E with_lk2nd_boot \in BOOLEAN, lk2nd_boots \in BOOLEAN, emmc \in BOOLEAN,
               signed \in BOOLEAN, fuse \in BOOLEAN, pcom \in BOOLEAN :
              LET tried == with_lk2nd_boot /\ ~boot_into_recovery
                  log1  == IF tried THEN Append(log, Ev("lk2nd_boot", INVALID)) ELSE log
              IN IF tried /\ lk2nd_boots
                 THEN /\ pc' = "handoff"
                      /\ log' = log1
                 ELSE IF emmc
                 THEN /\ pc' = "retry_boot"
                      /\ log' = IF TamperSignalMmc(device, signed, fuse, pcom)
                                THEN Append(log1, Ev("set_tamper", INVALID))
                                ELSE log1
                 ELSE /\ pc' = "boot_flash"
                      /\ log' = log1
    /\ UNCHANGED <<pers, device, flags, locals, inputs, appvars>>

\* ------------------------------------------------- lines 234-243: retry_boot
\* Faulty variant of MarkBootSlot: the selected slot is not marked active.
MarkBootSlot_Skipped(s, slot) == {s}

\* Line 240: the slot tables partition_mark_active_slot(boot_slot) may leave.
MarkBootSlot(s, slot) == partition_mark_active_slot(s, slot)

RetryBoot ==
    /\ pc = "retry_boot"
    /\ IF multislot
       THEN LET s == partition_find_boot_slot(slots) IN
            /\ boot_slot' = s
            /\ slots' \in MarkBootSlot(slots, s)
            /\ log' = Append(log, Ev("partition_mark_active_slot", s))
            /\ pc' = IF s = INVALID THEN "fastboot" ELSE "boot_mmc"
       ELSE /\ pc' = "boot_mmc"
            /\ UNCHANGED <<boot_slot, slots, log>>
    /\ UNCHANGED <<cfg, devinfo, multislot, device, flags, reboot_mode, inputs, appvars>>

\* ------------------------------------------------------- lines 246-267
\* boot_err_type = boot_linux_from_mmc() is consumed by the switch that
\* follows it.
\* Faulty variant of RetryNextSlot: every failure on a multi-slot target is
\* retried.
RetryNextSlot_Always(err, ms) == ms

\* Lines 250-266, the switch on boot_err_type: whether the failed slot is
\* given up and the boot retried.
RetryNextSlot(err, ms) == err \in RetryableErrors /\ ms

\* Faulty variant of DeactivateFailedSlot: the failed slot stays bootable.
DeactivateFailedSlot_Keeps(s, slot) == s

\* Line 259: the slot table once the slot that failed to boot is given up.
DeactivateFailedSlot(s, slot) == partition_deactivate_slot(s, slot)

\* Lines 246-267 for one return value of boot_linux_from_mmc().
BootFromMmcResult(boot_err_type) ==
    /\ pc = "boot_mmc"
    /\ IF boot_err_type = "BOOTED"
       THEN /\ pc' = "handoff"
            /\ log' = Append(log, Ev("boot_linux_from_mmc", boot_slot))
            /\ UNCHANGED slots
       ELSE IF RetryNextSlot(boot_err_type, multislot)
       THEN /\ slots' = DeactivateFailedSlot(slots, boot_slot)
            /\ log' = log \o <<Ev("boot_linux_from_mmc", boot_slot),
                               Ev("partition_deactivate_slot", boot_slot)>>
            /\ pc' = "retry_boot"
       ELSE /\ pc' = "fastboot"
            /\ log' = Append(log, Ev("boot_linux_from_mmc", boot_slot))
            /\ UNCHANGED slots
    /\ UNCHANGED <<cfg, devinfo, multislot, device, flags, reboot_mode, boot_slot, inputs, appvars>>

BootFromMmc == \E boot_err_type \in BootResults : BootFromMmcResult(boot_err_type)

\* ------------------------------------------------------- lines 269-279
\* boots: boot_linux_from_flash() did not come back.
BootFromFlash ==
    /\ pc = "boot_flash"
    /\ \E pcom \in BOOLEAN, boots \in BOOLEAN :
         /\ log' = (IF TamperSignalFlash(device, pcom)
                    THEN Append(log, Ev("set_tamper", INVALID))
                    ELSE log) \o <<Ev("boot_linux_from_flash", INVALID)>>
         /\ pc' = IF boots THEN "handoff" ELSE "fastboot"
    /\ UNCHANGED <<pers, device, flags, locals, inputs, appvars>>

\* ------------------------------------------------- lines 284-307: fastboot
Fastboot ==
    /\ pc = "fastboot"
    /\ log' = log \o <<Ev("fastboot_register_commands", INVALID), Ev("fastboot_init", INVALID)>>
    /\ pc' = "fastboot_mode"
    /\ UNCHANGED <<pers, device, flags, locals, inputs, appvars>>

\* ------------------------------------------------------------ next boot
\* The device is powered on or reset again: RAM starts over, non-volatile
\* storage stays.
Reboot ==
    /\ pc \in Terminal
    /\ pc' = "init"
    /\ device' = DeviceInitial
    /\ boot_into_fastboot' = FALSE
    /\ boot_into_recovery' = FALSE
    /\ boot_reason_alarm' = FALSE
    /\ reboot_mode' = NORMAL_MODE
    /\ boot_slot' = INVALID
    /\ force_reset' = FALSE
    /\ keys' = {}
    /\ wbc_poll' = 0
    /\ log' = <<>>
    /\ UNCHANGED <<pers, appvars>>

Next ==
    \/ ReadDeviceInfo
    \/ DetectSlot
    \/ DisplayInit
    \/ WaitDisplayShutdown
    \/ CheckForceReset
    \/ CheckKeys
    \/ CheckRebootMode
    \/ ForceFastboot
    \/ NormalBoot
    \/ RetryBoot
    \/ BootFromMmc
    \/ BootFromFlash
    \/ Fastboot
    \/ Reboot

Spec == Init /\ [][Next]_vars

\* aboot_init runs on one thread that is never descheduled for good: while a
\* step of the function is possible, one is taken.
FairSpec == Spec /\ WF_vars(Next)


\* ------------------------------------------------ failing storage writes
\* write_device_info, partition_mark_active_slot and partition_deactivate_slot
\* return nothing to aboot_init. What a write that fails does is theirs to
\* decide: a non-volatile write completes, or the whole boot halts before
\* the next decision step. Spec above is the boot with every write
\* completing; SpecStorage adds the writes that fail.

\* Faulty variant of WriteOutcome: a failed write is ignored.
WriteOutcome_Proceeds(ok, next) == next

\* Where control is after a storage write: ok is whether it completed, next
\* the region that follows the call.
WriteOutcome(ok, next) == IF ok THEN next ELSE "halted"

\* The calls logged by a storage write that failed.
FailedWrite(op, arg) == <<Ev(op, arg), Ev("storage_write_failed", INVALID)>>

\* Lines 173-188 with write_device_info(&device) failing.
PolicyWriteFails ==
    /\ pc = "reboot_reason"
    /\ \E m \in RebootModes :
         /\ PolicyWrites(cfg, m)
         /\ reboot_mode' = m
         /\ device' = VerityPolicy(cfg, device, m)
         /\ log' = log \o FailedWrite("write_device_info", INVALID)
         /\ pc' = WriteOutcome(FALSE, "force_flag")
    /\ UNCHANGED <<pers, flags, boot_slot, inputs, appvars>>

\* Lines 51-66 with partition_mark_active_slot(boot_slot) failing.
MarkActiveFails ==
    /\ pc = "slot_detect"
    /\ multislot
    /\ LET s == partition_find_active_slot(slots) IN
         /\ s # INVALID
         /\ boot_slot' = s
         /\ log' = log \o FailedWrite("partition_mark_active_slot", s)
         /\ pc' = WriteOutcome(FALSE, "display")
    /\ UNCHANGED <<pers, device, flags, reboot_mode, inputs, appvars>>

\* Lines 234-243 with partition_mark_active_slot(boot_slot) failing.
MarkBootSlotFails ==
    /\ pc = "retry_boot"
    /\ multislot
    /\ LET s == partition_find_boot_slot(slots) IN
         /\ boot_slot' = s
         /\ log' = log \o FailedWrite("partition_mark_active_slot", s)
         /\ pc' = WriteOutcome(FALSE, IF s = INVALID THEN "fastboot" ELSE "boot_mmc")
    /\ UNCHANGED <<pers, device, flags, reboot_mode, inputs, appvars>>

\* Lines 246-261 with partition_deactivate_slot(boot_slot) failing.
DeactivateFails ==
    /\ pc = "boot_mmc"
    /\ \E boot_err_type \in BootResults : RetryNextSlot(boot_err_type, multislot)
    /\ log' = log \o <<Ev("boot_linux_from_mmc", boot_slot)>>
                   \o FailedWrite("partition_deactivate_slot", boot_slot)
    /\ pc' = WriteOutcome(FALSE, "retry_boot")
    /\ UNCHANGED <<pers, device, flags, locals, inputs, appvars>>

NextStorage ==
    \/ Next
    \/ PolicyWriteFails
    \/ MarkActiveFails
    \/ MarkBootSlotFails
    \/ DeactivateFails

SpecStorage == Init /\ [][NextStorage]_vars

\* ============================================================ apps_init
\* app/app.c: apps_init, as bootstrap2 (kernel/main.c) calls it after
\* arch_init, platform_init and target_init. An init hook is a call out of
\* apps_init: it returns, or (aboot_init handing off to a kernel, or halting)
\* it never does.
APP_FLAG_DONT_START_ON_BOOT == "APP_FLAG_DONT_START_ON_BOOT"
\* The bits of app->flags, as the set of those that are set.
AppFlags == {APP_FLAG_DONT_START_ON_BOOT, "APP_FLAG_CUSTOM_STACK_SIZE"}
\* struct app_descriptor: whether init and entry are non-null, and flags.
AppDescriptors == [init : BOOLEAN, entry : BOOLEAN, flags : SUBSET AppFlags]
AppTables == UNION {[1 .. n -> AppDescriptors] : n \in 0 .. MaxApps}

\* aboot_init is not followed: SpecApps is apps_init on its own.
BootIdle ==
    /\ cfg = [force_fastboot |-> FALSE, vb |-> FALSE, vb_attest |-> FALSE]
    /\ devinfo = DeviceInitial
    /\ multislot = FALSE
    /\ slots = NoSlots
    /\ pc = "init"
    /\ device = DeviceInitial
    /\ boot_into_fastboot = FALSE
    /\ boot_into_recovery = FALSE
    /\ boot_reason_alarm = FALSE
    /\ reboot_mode = NORMAL_MODE
    /\ boot_slot = INVALID
    /\ force_reset = FALSE
    /\ keys = {}
    /\ wbc_poll = 0
    /\ log = <<>>

bootvars == <<pers, pc, device, flags, locals, inputs, log>>

InitApps ==
    /\ apps \in AppTables
    /\ apps_pc = "init_loop"
    /\ app = 1
    /\ apps_log = <<>>
    /\ BootIdle

\* Lines 44-48: the first loop, up to the call of one init hook.
AppsInitLoop ==
    /\ apps_pc = "init_loop"
    /\ IF app > Len(apps)
       THEN /\ app' = 1
            /\ apps_pc' = "start_loop"
            /\ UNCHANGED apps_log
       ELSE IF apps[app].init
       THEN /\ apps_log' = Append(apps_log, Ev("init_call", app))
            /\ apps_pc' = "in_init"
            /\ UNCHANGED app
       ELSE /\ app' = app + 1
            /\ UNCHANGED <<apps_pc, apps_log>>
    /\ UNCHANGED <<apps, bootvars>>

\* Line 47: app->init(app) comes back, or never does.
AppInitHook ==
    /\ apps_pc = "in_init"
    /\ \E returns \in BOOLEAN :
         IF returns
         THEN /\ apps_log' = Append(apps_log, Ev("init_return", app))
              /\ app' = app + 1
              /\ apps_pc' = "init_loop"
         ELSE /\ apps_pc' = "init_never_returns"
              /\ UNCHANGED <<app, apps_log>>
    /\ UNCHANGED <<apps, bootvars>>

\* Faulty variant of StartOnBoot: APP_FLAG_DONT_START_ON_BOOT is not looked at.
StartOnBoot_IgnoresFlag(a) == a.entry

\* Line 53: app->entry && (app->flags & APP_FLAG_DONT_START_ON_BOOT) == 0.
StartOnBoot(a) == a.entry /\ (a.flags \cap {APP_FLAG_DONT_START_ON_BOOT}) = {}

\* Lines 92-109: the calls start_app makes; thr: thread_create() returned a
\* thread.
start_app(a, thr) ==
    IF thr
    THEN <<Ev("thread_create", a), Ev("thread_resume", a)>>
    ELSE <<Ev("thread_create", a)>>

\* Lines 51-57: the second loop, one descriptor per step.
AppsStartLoop ==
    /\ apps_pc = "start_loop"
    /\ IF app > Len(apps)
       THEN /\ apps_pc' = "done"
            /\ UNCHANGED <<app, apps_log>>
       ELSE /\ app' = app + 1
            /\ UNCHANGED apps_pc
            /\ IF StartOnBoot(apps[app])
               THEN \E thr \in BOOLEAN : apps_log' = apps_log \o start_app(app, thr)
               ELSE UNCHANGED apps_log
    /\ UNCHANGED <<apps, bootvars>>

NextApps ==
    \/ AppsInitLoop
    \/ AppInitHook
    \/ AppsStartLoop

SpecApps == InitApps /\ [][NextApps]_vars

\* ======================================================================
\* Properties
\* ======================================================================
LoadOps == {"lk2nd_boot", "boot_linux_from_mmc", "boot_linux_from_flash"}
BootAttempted == \E i \in 1 .. Len(log) : log[i].op \in LoadOps
Last(q) == q[Len(q)]
\* This boot's partition_find_active_slot() returned INVALID.
NoActiveSlot ==
    /\ multislot
    /\ pc \notin {"init", "slot_detect"}
    /\ (log = <<>> \/ log[1].op # "partition_mark_active_slot")
\* The boot mode normal_boot resolves the two flags to.
ResolvedMode == IF boot_into_fastboot THEN "fastboot"
                ELSE IF boot_into_recovery THEN "recovery" ELSE "none"

\* ------------------------------------------------------------------ C1
\* The mode the precedence table forced-reset > dual-key emergency >
\* single-key > reset-reason register gives for keys k and reset reason m
\* (a dual-key request that came back degrades to fastboot).
PrecedenceMode(k, m) ==
    IF KEY_VOLUMEUP \in k /\ KEY_VOLUMEDOWN \in k THEN "fastboot"
    ELSE IF KEY_VOLUMEUP \in k THEN "recovery"
    ELSE IF k \cap {KEY_HOME, KEY_BACK, KEY_VOLUMEDOWN} # {} THEN "fastboot"
    ELSE IF m = RECOVERY_MODE THEN "recovery"
    ELSE IF m = FASTBOOT_MODE THEN "fastboot"
    ELSE "none"

C2_AlwaysFastbootAsStated ==
    (NoActiveSlot /\ pc \in Terminal) => (pc = "fastboot_mode" /\ ~BootAttempted)

\* C2 amended: with no active slot, fastboot stays latched, no OS image is
\* ever loaded and no slot is selected; the boot ends in the fastboot
\* fallback unless the dual-key emergency-download reset succeeds or the
\* key deletion of DM_VERITY_KEYSCLEAR fails (halt).
C2_NoBootWithoutActiveSlot ==
    NoActiveSlot =>
        /\ boot_into_fastboot
        /\ ~BootAttempted
        /\ pc \notin {"retry_boot", "boot_mmc", "boot_flash", "handoff"}
        /\ ~Called("partition_mark_active_slot")
        /\ pc = "edl_reset" => (~force_reset /\ {KEY_VOLUMEUP, KEY_VOLUMEDOWN} \subseteq keys)
        /\ pc = "halted" => Last(log) = Ev("send_delete_keys_to_tz", 1)

C2_Witness == NoActiveSlot /\ pc = "fastboot_mode" /\ force_reset

\* ------------------------------------------------------------------ C3
\* C3: on a build with LK2ND_FORCE_FASTBOOT, boot_linux_from_mmc and
\* boot_linux_from_flash are never invoked, whatever the forced-reset
\* indicator, keys, reset reason and slots are.
C3_ForceFastbootNeverBoots ==
    cfg.force_fastboot =>
        /\ ~Called("boot_linux_from_mmc")
        /\ ~Called("boot_linux_from_flash")


\* ------------------------------------------------------------------ C4
MmcAttempts == {i \in 1 .. Len(log) : log[i].op = "boot_linux_from_mmc"}

\* C4: within one boot no slot is handed to boot_linux_from_mmc twice, no
\* slot is attempted after it was deactivated, and the attempts number at
\* most one per slot.
C4_EachSlotAtMostOnce ==
    /\ \A i, j \in MmcAttempts : i # j => log[i].arg # log[j].arg
    /\ \A i, j \in 1 .. Len(log) :
         (i < j /\ log[i].op = "partition_deactivate_slot" /\ j \in MmcAttempts)
             => log[j].arg # log[i].arg
    /\ multislot => Cardinality(MmcAttempts) <= NumSlots
    /\ multislot => \A i \in MmcAttempts : log[i].arg \in Slots

\* Two slots were attempted, both failed retryably, and the boot fell back
\* to fastboot.
C4_Witness ==
    /\ pc = "fastboot_mode"
    /\ Cardinality(MmcAttempts) >= 2
    /\ Cardinality({i \in 1 .. Len(log) : log[i].op = "partition_deactivate_slot"}) >= 2

\* ------------------------------------------------------------------ C5
Deactivations == {i \in 1 .. Len(log) : log[i].op = "partition_deactivate_slot"}

\* C5: a slot is deactivated right after its failed attempt and before the
\* next slot is selected; the slot selected next is another one, and is
\* none only when no slot is bootable any more; and when the retried boot
\* hands off, the slot it booted is the one active slot and every slot
\* deactivated on the way is non-bootable.
C5_FailoverToOtherSlot ==
    /\ \A i \in Deactivations :
         /\ i > 1
         /\ log[i - 1] = Ev("boot_linux_from_mmc", log[i].arg)
         /\ i < Len(log) =>
              /\ log[i + 1].op = "partition_mark_active_slot"
              /\ log[i + 1].arg # log[i].arg
              /\ log[i + 1].arg = INVALID => BootableSlots(slots) = {}
         /\ ~slots[log[i].arg].bootable
    /\ (pc = "handoff" /\ Deactivations # {}) =>
         /\ Last(log).op = "boot_linux_from_mmc"
         /\ log[Len(log) - 1] = Ev("partition_mark_active_slot", Last(log).arg)
         /\ ActiveSlots(slots) = {Last(log).arg}
         /\ slots[Last(log).arg].bootable

\* Slot 0 failed and was deactivated, slot 1 was attempted next and booted.
C5_Witness ==
    /\ pc = "handoff"
    /\ Len(log) >= 4
    /\ SubSeq(log, Len(log) - 3, Len(log)) =
         <<Ev("boot_linux_from_mmc", 0), Ev("partition_deactivate_slot", 0),
           Ev("partition_mark_active_slot", 1), Ev("boot_linux_from_mmc", 1)>>
    /\ slots[1].active /\ ~slots[0].active /\ ~slots[0].bootable

\* ------------------------------------------------------------------ C6
\* The dual-key emergency-download request was made and came back.
DloadCameBack == Called("reboot_device") /\ pc # "edl_reset"

\* C6 as stated: after a dload request that came back, a boot that has
\* ended has ended in the fastboot fallback, without a boot attempt,
\* whatever the reset reason.
C6_DloadFailEndsInFastbootAsStated ==
    (DloadCameBack /\ pc \in Terminal) => (pc = "fastboot_mode" /\ ~BootAttempted)

\* C6 amended: after a dload request that came back, fastboot is latched and
\* no OS boot is attempted; the boot ends in the fastboot fallback, except
\* that the reset reason DM_VERITY_KEYSCLEAR with a failed key deletion
\* halts it first.
C6_DloadFailNoBoot ==
    DloadCameBack =>
        /\ ~force_reset
        /\ boot_into_fastboot
        /\ ~BootAttempted
        /\ pc \in {"reboot_reason", "force_flag", "normal_boot", "fastboot",
                   "fastboot_mode", "halted"}
        /\ pc = "halted" => Last(log) = Ev("send_delete_keys_to_tz", 1)

C6_Witness == DloadCameBack /\ pc = "fastboot_mode"

\* ------------------------------------------------------------------ C7
KeyDeletionFailed ==
    \E i \in 1 .. Len(log) : log[i] = Ev("send_delete_keys_to_tz", 1)

\* C7: once send_delete_keys_to_tz() has failed, the boot is halted and the
\* failed request is the last call aboot_init has made: no boot attempt, no
\* slot operation, no fastboot registration, and none of the terminal
\* decisions.
C7_KeyClearFailureHalts ==
    KeyDeletionFailed =>
        /\ pc = "halted"
        /\ Last(log) = Ev("send_delete_keys_to_tz", 1)
        /\ ~BootAttempted
        /\ ~Called("fastboot_register_commands")
        /\ ~Called("fastboot_init")
        /\ ~Called("partition_deactivate_slot")

C7_Witness == KeyDeletionFailed /\ pc = "halted" /\ reboot_mode = DM_VERITY_KEYSCLEAR


\* ------------------------------------------------------------------ C8
\* The reset reason this build decodes as the enforcing (1) or logging (0)
\* intent; -1 for every other reason.
VerityIntent(m) ==
    IF m = DM_VERITY_ENFORCING THEN 1
    ELSE IF m = (IF cfg.vb_attest THEN DM_VERITY_EIO ELSE DM_VERITY_LOGGING) THEN 0
    ELSE -1

\* C8, for every step: decoding the reset reason on a build at or above the
\* minimum verified-boot version persists the device record with
\* verity_mode set as the intent says (1 enforcing, 0 logging); applied to a
\* stored record that already carries that mode it stores the same record
\* again; on a build below the minimum version it leaves both the record in
\* memory and the stored one alone and writes nothing; and no other step of
\* a boot writes the stored record.
C8_PolicyStep ==
    /\ (pc = "reboot_reason" /\ pc' # "reboot_reason") =>
         LET t == VerityIntent(reboot_mode') IN
         /\ (cfg.vb /\ t # -1) =>
              /\ devinfo' = [device EXCEPT !.verity_mode = t]
              /\ devinfo'.verity_mode = t
              /\ device' = devinfo'
              /\ log' = Append(log, Ev("write_device_info", INVALID))
              /\ ([device EXCEPT !.verity_mode = t] = devinfo) => devinfo' = devinfo
         /\ ~cfg.vb => (devinfo' = devinfo /\ device' = device /\ log' = log)
    /\ pc # "reboot_reason" => devinfo' = devinfo

C9_ForcedResetSkipsSignals ==
    force_reset =>
        /\ ~Called("reboot_device")
        /\ reboot_mode = NORMAL_MODE
        /\ keys = {}
        /\ ~boot_into_recovery
        /\ ~boot_reason_alarm
        /\ ~Called("write_device_info")
        /\ ~Called("send_delete_keys_to_tz")
        /\ pc \in {"normal_boot", "retry_boot", "boot_mmc", "boot_flash", "fastboot",
                   "fastboot_mode", "handoff"}
        /\ boot_into_fastboot = NoActiveSlot
        /\ pc \in {"fastboot", "fastboot_mode"} =>
             \/ NoActiveSlot
             \/ BootAttempted
             \/ \E i \in 1 .. Len(log) : log[i] = Ev("partition_mark_active_slot", INVALID)

\* A forced reset whose normal boot handed off to the OS.
C9_Witness == force_reset /\ pc = "handoff" /\ Called("boot_linux_from_mmc")

\* ----------------------------------------------------------------- C10
\* C10: on a device that is unlocked or marked tampered, every call that
\* loads an OS image is preceded in the same boot by the tamper signal.
C10_TamperSignalBeforeLoad ==
    (device.is_unlocked \/ device.is_tampered) =>
        \A i \in 1 .. Len(log) :
            log[i].op \in LoadOps => \E j \in 1 .. (i - 1) : log[j].op = "set_tamper"

\* ----------------------------------------------------------------- C11
\* A boot_linux_from_mmc() failure that is not retried: an error outside
\* the four retryable kinds, or any error without multi-slot support.
NonRetryable(err) == err # "BOOTED" /\ (err \notin RetryableErrors \/ ~multislot)

C11_Step ==
    /\ \A err \in BootResults :
         (NonRetryable(err) /\ BootFromMmcResult(err)) =>
             /\ pc' = "fastboot"
             /\ slots' = slots
             /\ log' = Append(log, Ev("boot_linux_from_mmc", boot_slot))
    /\ (pc = "boot_flash" /\ pc' # "boot_flash") =>
         /\ pc' \in {"handoff", "fastboot"}
         /\ slots' = slots
         /\ Last(log') = Ev("boot_linux_from_flash", INVALID)
         /\ \A i \in 1 .. Len(log') : log'[i].op # "partition_deactivate_slot"
    /\ (pc = "fastboot" /\ pc' # "fastboot") =>
         /\ pc' = "fastboot_mode"
         /\ slots' = slots
         /\ log' = log \o <<Ev("fastboot_register_commands", INVALID),
                            Ev("fastboot_init", INVALID)>>

\* C11, for every step: a boot failure with an error outside the four
\* retryable kinds, or any boot failure without multi-slot support, and any
\* return of boot_linux_from_flash, leads to the fastboot fallback with the
\* slot table as it was, no slot deactivated and no further boot attempt.
C11_NonRetryableFallsBack == [][C11_Step]_vars

\* On a multi-slot target slot 0 was attempted, failed with an error outside
\* the retryable kinds, is still bootable and active, and the fallback runs.
C11_Witness ==
    /\ pc = "fastboot_mode"
    /\ multislot
    /\ Cardinality(MmcAttempts) = 1
    /\ Deactivations = {}
    /\ \E i \in MmcAttempts : log[i].arg = 0 /\ slots[0].bootable /\ slots[0].active
    /\ log[Len(log) - 2] = Ev("boot_linux_from_mmc", 0)

\* ----------------------------------------------------------------- C12
\* A key-based intent was latched this boot: the recovery key, a fastboot
\* key, or a dual-key emergency request that came back.
KeyIntent ==
    /\ ~force_reset
    /\ \/ DloadCameBack
       \/ (~NoActiveSlot /\ keys \cap Keys # {})

\* C12 as stated: in a boot where a key-based intent has been latched, the
\* reset reason has no effect: the alarm flag is not set, the device record
\* is not written and no key deletion is requested.
C12_ResetReasonSkippedAsStated ==
    (KeyIntent /\ pc \in {"force_flag", "halted"}) =>
        /\ ~boot_reason_alarm
        /\ ~Called("write_device_info")
        /\ ~Called("send_delete_keys_to_tz")

\* C12 amended: the reset reason is left unread only by a forced reset and
\* by an emergency-download reset that took place; in every other boot it is
\* decoded after the keys, whatever they latched: ALARM_BOOT sets the alarm
\* flag, and on a build at or above the minimum verified-boot version the
\* enforcing and logging reasons write the device record and
\* DM_VERITY_KEYSCLEAR requests the key deletion.
C12_ResetReasonAlwaysDecoded ==
    /\ pc \in {"force_flag", "halted"} =>
         /\ ~force_reset
         /\ boot_reason_alarm = (reboot_mode = ALARM_BOOT)
         /\ Called("write_device_info") = (cfg.vb /\ VerityIntent(reboot_mode) # -1)
         /\ Called("send_delete_keys_to_tz") = (cfg.vb /\ reboot_mode = DM_VERITY_KEYSCLEAR)
         /\ pc = "halted" => (cfg.vb /\ reboot_mode = DM_VERITY_KEYSCLEAR)
    /\ (force_reset \/ pc = "edl_reset") =>
         /\ reboot_mode = NORMAL_MODE
         /\ ~boot_reason_alarm
         /\ ~Called("write_device_info")
         /\ ~Called("send_delete_keys_to_tz")

\* The recovery key latched recovery and the enforcing reset reason was then
\* applied and stored on top of it.
C12_Witness ==
    /\ pc = "force_flag"
    /\ keys = {KEY_VOLUMEUP}
    /\ boot_into_recovery
    /\ cfg.vb
    /\ reboot_mode = DM_VERITY_ENFORCING
    /\ device.verity_mode = 1
    /\ Last(log) = Ev("write_device_info", INVALID)

\* ----------------------------------------------------------------- C13
\* Another slot than the one being attempted is still marked bootable.
OtherBootableRemains == BootableSlots(slots) \ {boot_slot} # {}

C13_Step ==
    \A err \in BootResults :
        BootFromMmcResult(err) =>
            /\ (slots' # slots \/ Len(log') > Len(log) + 1) =>
                 /\ err \in RetryableErrors
                 /\ multislot
                 /\ OtherBootableRemains
                 /\ pc' = "retry_boot"
            /\ (err \in RetryableErrors /\ multislot /\ ~OtherBootableRemains) =>
                 /\ pc' = "fastboot"
                 /\ slots' = slots

\* C13, for every step: the slot that failed to boot is deactivated only
\* when the failure is retryable, the target is multi-slot and another slot
\* is still bootable; a retryable failure of the last bootable slot goes to
\* the fallback and leaves that slot bootable.
C13_DeactivateOnlyWithAlternative == [][C13_Step]_vars

\* ----------------------------------------------------------------- C14
\* C14 as stated: every boot that starts reaches a terminal outcome (OS
\* handoff, emergency-download reset, the fastboot fallback, or a fatal
\* halt).
C14_EveryBootEnds == (pc = "init") ~> (pc \in Terminal)

\* The regions of aboot_init ahead of the retry_boot loop, last one first.
StraightLine ==
    <<"boot_flash", "normal_boot", "force_flag", "reboot_reason", "key_check",
      "force_check", "display_wait", "display", "slot_detect", "init">>

\* A bound on the steps this boot still has to take: the slots left to try
\* weigh two steps each (select, attempt).
BootRank ==
    IF pc \in Terminal THEN 0
    ELSE IF pc = "fastboot" THEN 1
    ELSE IF pc = "boot_mmc" THEN 2 + 2 * Cardinality(BootableSlots(slots))
    ELSE IF pc = "retry_boot" THEN 3 + 2 * Cardinality(BootableSlots(slots))
    ELSE 3 + 2 * NumSlots + (CHOOSE i \in 1 .. Len(StraightLine) : StraightLine[i] = pc)

C14_Step ==
    (pc \notin Terminal /\ ~(pc = "display_wait" /\ pc' = "display_wait")) =>
        /\ BootRank' < BootRank
        /\ (pc = "boot_mmc" /\ pc' = "retry_boot") =>
             /\ BootableSlots(slots') \subseteq BootableSlots(slots)
             /\ BootableSlots(slots') # BootableSlots(slots)

\* C14 amended: apart from the display-shutdown wait of an ENABLE_WBC
\* build, which polls without a bound, every step of a boot that has not
\* ended lowers a bound on the steps still to come, and a boot that has not
\* ended can always take a step: the retry_boot loop strictly shrinks the
\* set of bootable slots on every retry, so it runs at most NumSlots times,
\* and the boot ends in the OS handoff, the emergency-download reset, the
\* fastboot fallback or a fatal halt.
C14_BootProgress ==
    /\ [][C14_Step]_vars
    /\ [](BootRank \in 0 .. (3 + 2 * NumSlots + Len(StraightLine)))
    /\ [](pc \notin Terminal => ENABLED Next)

\* The retry loop ran once per slot: every slot was attempted and
\* deactivated, the selection came back empty, and the fallback ended the
\* boot.
C14_Witness ==
    /\ pc = "fastboot_mode"
    /\ Cardinality(MmcAttempts) = NumSlots
    /\ Cardinality(Deactivations) = NumSlots
    /\ BootableSlots(slots) = {}
    /\ \E i \in 1 .. Len(log) : log[i] = Ev("partition_mark_active_slot", INVALID)

\* ----------------------------------------------------------------- C15
FallbackEntries == {i \in 1 .. Len(log) : log[i].op = "fastboot_register_commands"}

\* C15: while boot_into_fastboot is latched no OS image is loaded, no boot
\* slot is selected or deactivated, and control is never in the boot block;
\* and in every boot the fallback (fastboot_register_commands, then
\* fastboot_init) is entered at most once, ends the boot, and is never
\* entered once the boot has handed off.
C15_LatchedFastbootSkipsBoot ==
    /\ boot_into_fastboot =>
         /\ ~BootAttempted
         /\ Deactivations = {}
         /\ \A i \in 1 .. Len(log) : log[i] # Ev("partition_mark_active_slot", INVALID)
         /\ pc \notin {"retry_boot", "boot_mmc", "boot_flash", "handoff"}
    /\ Cardinality(FallbackEntries) <= 1
    /\ Cardinality({i \in 1 .. Len(log) : log[i].op = "fastboot_init"}) <= 1
    /\ FallbackEntries # {} =>
         /\ pc = "fastboot_mode"
         /\ SubSeq(log, Len(log) - 1, Len(log)) =
              <<Ev("fastboot_register_commands", INVALID), Ev("fastboot_init", INVALID)>>
    /\ pc = "handoff" => (Last(log).op \in LoadOps /\ FallbackEntries = {})

\* The compile-time force flag latched fastboot on a device with an active,
\* bootable slot, and the fallback was entered without any boot attempt.
C15_Witness ==
    /\ pc = "fastboot_mode"
    /\ boot_into_fastboot
    /\ cfg.force_fastboot
    /\ ~NoActiveSlot
    /\ multislot
    /\ BootableSlots(slots) # {}
    /\ FallbackEntries # {}
    /\ ~BootAttempted

\* ----------------------------------------------------------------- C16
\* C16: in a boot with the recovery intent latched, a boot attempt that
\* fails is followed by the fallback: no slot is deactivated and no second
\* attempt is made.
C16_RecoveryFailureNoSlotRetry ==
    boot_into_recovery =>
        /\ Deactivations = {}
        /\ Cardinality(MmcAttempts) <= 1
        /\ (MmcAttempts # {} /\ pc # "handoff") => pc \in {"fastboot", "fastboot_mode"}

\* ----------------------------------------------------------------- C17
\* C17 as stated: at every point of a boot after the device record has been
\* loaded, the record in memory equals the stored one.
C17_MemoryEqualsStoredAsStated == pc # "init" => device = devinfo

C17_Step ==
    /\ device' # device =>
         \/ pc \in Terminal
         \/ /\ pc = "init"
            /\ device' \in {devinfo, [device EXCEPT !.is_unlocked = TRUE]}
         \/ /\ pc = "display"
            /\ device.display_panel = ""
            /\ device' = [device EXCEPT !.display_panel = DISPLAY_PANEL_HDMI]
         \/ /\ pc = "reboot_reason"
            /\ \E v \in {0, 1} : device' = [device EXCEPT !.verity_mode = v]
            /\ devinfo' = device'
            /\ Last(log') = Ev("write_device_info", INVALID)
    /\ devinfo' # devinfo => (pc = "reboot_reason" /\ devinfo' = device')
    /\ Len(log') > Len(log) /\ Last(log') = Ev("write_device_info", INVALID)
         => (pc = "reboot_reason" /\ devinfo' = device')

\* C17 amended: the record in memory is changed by the load (to the stored
\* record, or on a standalone build to the built-in record with is_unlocked
\* set), by the HDMI-primary default for an empty display_panel, and by the
\* verified-boot policy step. Only the policy step is followed by
\* write_device_info, which stores the record as it then is in memory; so
\* memory equals storage from a policy write to the end of the boot, and
\* before it on builds that are neither standalone nor HDMI-primary.
C17_DeviceStateWrites ==
    /\ [][C17_Step]_vars
    /\ [](Called("write_device_info") => device = devinfo)
    /\ []((pc # "init" /\ device # devinfo) =>
            \/ device = [devinfo EXCEPT !.display_panel = DISPLAY_PANEL_HDMI]
            \/ device = [DeviceInitial EXCEPT !.is_unlocked = TRUE]
            \/ device = [DeviceInitial EXCEPT !.is_unlocked = TRUE,
                                              !.display_panel = DISPLAY_PANEL_HDMI])

\* The HDMI default was applied in memory only, and the policy step then
\* stored the record that carries it.
C17_Witness ==
    /\ pc = "force_flag"
    /\ cfg.vb
    /\ reboot_mode = DM_VERITY_ENFORCING
    /\ Last(log) = Ev("write_device_info", INVALID)
    /\ device.display_panel = DISPLAY_PANEL_HDMI
    /\ device.verity_mode = 1
    /\ devinfo = device

\* ----------------------------------------------------------------- C18
StorageWrites == {"write_device_info", "partition_mark_active_slot", "partition_deactivate_slot"}
FailedWrites == {i \in 1 .. Len(log) : log[i].op = "storage_write_failed"}

C19_SlotCallsValid ==
    \A i \in 1 .. Len(log) :
        log[i].op \in {"partition_mark_active_slot", "partition_deactivate_slot"}
            => log[i].arg \in Slots

\* ----------------------------------------------------------------- C20
ThreadCreates == {i \in 1 .. Len(apps_log) : apps_log[i].op = "thread_create"}
ThreadResumes == {i \in 1 .. Len(apps_log) : apps_log[i].op = "thread_resume"}

\* C20: when a thread is created or resumed for an app, the init hook of
\* every app that has one has been called and has returned, and no init
\* hook is called afterwards; the app has an entry function and does not
\* carry APP_FLAG_DONT_START_ON_BOOT; and no app has a thread created or
\* resumed twice, a thread being resumed right after its creation.
C20_InitBeforeThreads ==
    /\ \A i \in ThreadCreates \cup ThreadResumes :
         /\ \A a \in 1 .. Len(apps) :
              apps[a].init =>
                  \E j, k \in 1 .. (i - 1) :
                      /\ j < k
                      /\ apps_log[j] = Ev("init_call", a)
                      /\ apps_log[k] = Ev("init_return", a)
         /\ \A j \in 1 .. Len(apps_log) :
              apps_log[j].op \in {"init_call", "init_return"} => j < i
         /\ apps_log[i].arg \in 1 .. Len(apps)
         /\ apps[apps_log[i].arg].entry
         /\ APP_FLAG_DONT_START_ON_BOOT \notin apps[apps_log[i].arg].flags
         /\ apps_pc \in {"start_loop", "done"}
    /\ \A i, j \in ThreadCreates : i # j => apps_log[i].arg # apps_log[j].arg
    /\ \A i, j \in ThreadResumes : i # j => apps_log[i].arg # apps_log[j].arg
    /\ \A i \in ThreadResumes : i > 1 /\ apps_log[i - 1] = Ev("thread_create", apps_log[i].arg)
    /\ apps_pc = "init_never_returns" => (ThreadCreates = {} /\ Last(apps_log).op = "init_call")

\* Two apps with init hooks: both hooks returned, then the first app got its
\* thread and the second, which carries APP_FLAG_DONT_START_ON_BOOT, none.
C20_Witness ==
    /\ apps_pc = "done"
    /\ Len(apps) = 2
    /\ apps[1].init /\ apps[2].init
    /\ apps[2].entry /\ APP_FLAG_DONT_START_ON_BOOT \in apps[2].flags
    /\ apps_log = <<Ev("init_call", 1), Ev("init_return", 1), Ev("init_call", 2),
                    Ev("init_return", 2), Ev("thread_create", 1), Ev("thread_resume", 1)>>

====
